------------------------- MODULE CommandStoreProofs -------------------------
(***************************************************************************)
(* Theorems about CommandStore for every set of searches, owners, keys,    *)
(* sources and fingerprints, every lease and every fence bound.            *)
(***************************************************************************)
EXTENDS CommandStore, FiniteSetTheorems, TLAPS

-----------------------------------------------------------------------------
(* The shape of a step *)

\* Every settlement is the settle transaction, of a collection or of a failure:
\* postings come only with a completed or partial run.
LEMMA CollectionStatusOfPostings ==
  ASSUME NEW postings, NEW outcomes
  PROVE  /\ CollectionStatus(postings, outcomes) \in {"completed", "partial", "failed"}
         /\ postings # {} => CollectionStatus(postings, outcomes) \in {"completed", "partial"}
BY DEF CollectionStatus

\* What a caller can do to the settle transaction: the result it may store.
SettleStep(s, fence) ==
  \E postings \in SUBSET Fingerprints :
    \E result \in {"completed", "partial", "failed"}, execStatus \in {"completed", "failed"} :
      /\ postings # {} => result \in {"completed", "partial"}
      /\ execStatus = "failed" => result = "failed"
      /\ Settle(s, fence, postings, result, execStatus)

LEMMA CollectionSettles ==
  ASSUME NEW s \in Searches, NEW fence, NEW sourceOf \in Postings, NEW outcomes,
         CompleteCollection(s, fence, sourceOf, outcomes)
  PROVE  SettleStep(s, fence)
<1>1. DOMAIN sourceOf \in SUBSET Fingerprints
  BY DEF Postings
<1>2. Settle(s, fence, DOMAIN sourceOf,
             CollectionStatus(DOMAIN sourceOf, outcomes), "completed")
  BY DEF CompleteCollection
<1>. QED
  BY <1>1, <1>2, CollectionStatusOfPostings DEF SettleStep

LEMMA FailSettles ==
  ASSUME NEW s \in Searches, NEW fence, Fail(s, fence)
  PROVE  SettleStep(s, fence)
BY DEF Fail, SettleStep

LEMMA CompleteSettles ==
  ASSUME NEW s \in Searches, NEW fence, NEW postings \in SUBSET Fingerprints,
         Complete(s, fence, postings)
  PROVE  SettleStep(s, fence)
BY DEF Complete, SettleStep

\* The steps of the store, with the three settling methods as one.
StoreStep(s) ==
  \/ \E req \in Request, useProfileTitles, hasTitles \in BOOLEAN :
       CreateSearch(s, req, useProfileTitles, hasTitles)
  \/ CancelSearch(s)
  \/ Published(s)
  \/ Claim(s)
  \/ \E fence \in 1..MaxFence :
       \/ Renew(s, fence)
       \/ Release(s, fence)
       \/ StartSearch(s, fence)
       \/ SettleStep(s, fence)

LEMMA StepCases ==
  ASSUME StoreNext
  PROVE  StoreTick \/ \E s \in Searches : StoreStep(s)
BY CollectionSettles, CompleteSettles, FailSettles DEF StoreNext, StoreStep

-----------------------------------------------------------------------------
(* Types *)

LEMMA TypeInit == StoreInit => TypeOK
BY LeaseAssumption, RepublishAssumption, FenceAssumption
   DEF StoreInit, TypeOK, OutboxRow, Execution, EventType

\* A lease set to a value of its range keeps the executions well formed.
LEMMA LeaseSet ==
  ASSUME NEW row \in Execution, NEW lease \in -1..LeaseTicks
  PROVE  [row EXCEPT !.lease = lease] \in Execution
BY DEF Execution

LEMMA LeaseSetAt ==
  ASSUME TypeOK, NEW s \in Searches, NEW lease \in -1..LeaseTicks
  PROVE  [exec EXCEPT ![s].lease = lease] \in [Searches -> Execution]
BY LeaseSet DEF TypeOK

LEMMA LapsedType ==
  ASSUME NEW row \in Execution
  PROVE  Lapsed(row) \in Execution
<1>. DEFINE left == IF row.lease > -1 THEN row.lease - 1 ELSE row.lease
<1>1. left \in -1..LeaseTicks
  BY LeaseAssumption DEF Execution
<1>2. Lapsed(row) = [row EXCEPT !.lease = left]
  BY DEF Lapsed
<1>. HIDE DEF left
<1>. QED
  BY <1>1, <1>2, LeaseSet

LEMMA AgedType ==
  ASSUME NEW row \in OutboxRow
  PROVE  Aged(row) \in OutboxRow
<1>. DEFINE old == IF row.sent /\ row.age <= RepublishTicks THEN row.age + 1 ELSE row.age
<1>1. old \in 0..(RepublishTicks + 1)
  BY RepublishAssumption DEF OutboxRow
<1>2. Aged(row) = [row EXCEPT !.age = old]
  BY DEF Aged
<1>. HIDE DEF old
<1>3. [row EXCEPT !.age = old] \in OutboxRow
  BY <1>1 DEF OutboxRow
<1>. QED
  BY <1>2, <1>3

LEMMA SightedType ==
  ASSUME TypeOK, NEW owner, NEW postings
  PROVE  Sighted(owner, postings) \in [Owners -> [Fingerprints -> Nat]]
BY DEF TypeOK, Sighted

LEMMA TypeStep ==
  ASSUME TypeOK, [StoreNext]_storeVars
  PROVE  TypeOK'
<1>. USE LeaseAssumption, RepublishAssumption, FenceAssumption
<1>1. CASE UNCHANGED storeVars
  BY <1>1 DEF TypeOK, storeVars
<1>2. CASE StoreTick
  <2>1. \A s \in Searches : Aged(outbox[s]) \in OutboxRow
    BY AgedType DEF TypeOK
  <2>2. \A s \in Searches : Lapsed(exec[s]) \in Execution
    BY LapsedType DEF TypeOK
  <2>. QED
    BY <1>2, <2>1, <2>2 DEF StoreTick, TypeOK
<1>3. ASSUME NEW s \in Searches, StoreStep(s)
      PROVE  TypeOK'
  <2>1. ASSUME NEW req \in Request, NEW useProfileTitles, NEW hasTitles,
               CreateSearch(s, req, useProfileTitles, hasTitles)
        PROVE  TypeOK'
    BY <2>1 DEF CreateSearch, TypeOK, Active, OutboxRow, EventType
  <2>2. CASE CancelSearch(s)
    <3>1. exec' \in [Searches -> Execution]
      BY <2>2 DEF CancelSearch, TypeOK, Execution
    <3>. QED
      BY <2>2, <3>1 DEF CancelSearch, TypeOK, Settled, EventType
  <2>3. CASE Published(s)
    BY <2>3 DEF Published, TypeOK, OutboxRow
  <2>4. CASE Claim(s)
    BY <2>4 DEF Claim, Claimable, TypeOK, Execution
  <2>5. ASSUME NEW fence \in 1..MaxFence, Renew(s, fence)
        PROVE  TypeOK'
    <3>1. exec' \in [Searches -> Execution]
      BY <2>5, LeaseSetAt DEF Renew
    <3>. QED
      BY <2>5, <3>1 DEF Renew, TypeOK
  <2>6. ASSUME NEW fence \in 1..MaxFence, Release(s, fence)
        PROVE  TypeOK'
    <3>1. exec' \in [Searches -> Execution]
      BY <2>6, LeaseSetAt DEF Release
    <3>. QED
      BY <2>6, <3>1 DEF Release, TypeOK
  <2>7. ASSUME NEW fence \in 1..MaxFence, StartSearch(s, fence)
        PROVE  TypeOK'
    BY <2>7 DEF StartSearch, TypeOK, Active, EventType
  <2>8. ASSUME NEW fence \in 1..MaxFence, SettleStep(s, fence)
        PROVE  TypeOK'
    <3>. PICK postings \in SUBSET Fingerprints,
              result \in {"completed", "partial", "failed"},
              execStatus \in {"completed", "failed"} :
                Settle(s, fence, postings, result, execStatus)
      BY <2>8 DEF SettleStep
    <3>1. exec' \in [Searches -> Execution]
      BY DEF Settle, TypeOK, Execution
    <3>2. sightings' \in [Owners -> [Fingerprints -> Nat]]
      BY SightedType DEF Settle
    <3>3. events' \in [Searches -> Seq(EventType)]
      BY DEF Settle, OutcomeEvent, TypeOK, EventType
    <3>. QED
      BY <3>1, <3>2, <3>3 DEF Settle, TypeOK, Settled
  <2>. QED
    BY <1>3, <2>1, <2>2, <2>3, <2>4, <2>5, <2>6, <2>7, <2>8 DEF StoreStep
<1>. QED
  BY <1>1, <1>2, <1>3, StepCases

\* Type correctness: every column of every table stays in its type.
THEOREM StoreTypeCorrect == StoreSpec => []TypeOK
BY TypeInit, TypeStep, PTL DEF StoreSpec

-----------------------------------------------------------------------------
(* The run and the execution of its command *)

LEMMA CouplingInit == StoreInit => RunCommandCoupling
BY DEF StoreInit, RunCommandCoupling, Active, Settled

LEMMA CouplingStep ==
  ASSUME TypeOK, RunCommandCoupling, [StoreNext]_storeVars
  PROVE  RunCommandCoupling'
<1>. USE DEF Active, Settled
<1>1. CASE UNCHANGED storeVars
  BY <1>1 DEF RunCommandCoupling, storeVars
<1>2. CASE StoreTick
  <2>1. \A s \in Searches : /\ outbox'[s].exists = outbox[s].exists
                           /\ exec'[s].status = exec[s].status
    BY <1>2 DEF StoreTick, Aged, Lapsed, TypeOK, OutboxRow, Execution
  <2>. QED
    BY <1>2, <2>1 DEF StoreTick, RunCommandCoupling
<1>3. ASSUME NEW s \in Searches, StoreStep(s)
      PROVE  RunCommandCoupling'
  <2>1. ASSUME NEW req \in Request, NEW useProfileTitles, NEW hasTitles,
               CreateSearch(s, req, useProfileTitles, hasTitles)
        PROVE  RunCommandCoupling'
    BY <2>1 DEF CreateSearch, TypeOK, OutboxRow, RunCommandCoupling
  <2>2. CASE CancelSearch(s)
    BY <2>2 DEF CancelSearch, TypeOK, OutboxRow, Execution, RunCommandCoupling
  <2>3. CASE Published(s)
    BY <2>3 DEF Published, TypeOK, OutboxRow, RunCommandCoupling
  <2>4. CASE Claim(s)
    BY <2>4 DEF Claim, Claimable, TypeOK, OutboxRow, Execution, RunCommandCoupling
  <2>5. ASSUME NEW fence \in 1..MaxFence, Renew(s, fence)
        PROVE  RunCommandCoupling'
    <3>1. \A t \in Searches : exec'[t].status = exec[t].status
      BY <2>5 DEF Renew, TypeOK, Execution
    <3>. QED
      BY <2>5, <3>1 DEF Renew, RunCommandCoupling
  <2>6. ASSUME NEW fence \in 1..MaxFence, Release(s, fence)
        PROVE  RunCommandCoupling'
    <3>1. \A t \in Searches : exec'[t].status = exec[t].status
      BY <2>6 DEF Release, TypeOK, Execution
    <3>. QED
      BY <2>6, <3>1 DEF Release, RunCommandCoupling
  <2>7. ASSUME NEW fence \in 1..MaxFence, StartSearch(s, fence)
        PROVE  RunCommandCoupling'
    BY <2>7 DEF StartSearch, Owned, NotStarted, TypeOK, RunCommandCoupling
  <2>8. ASSUME NEW fence \in 1..MaxFence, SettleStep(s, fence)
        PROVE  RunCommandCoupling'
    <3>. PICK postings \in SUBSET Fingerprints,
              result \in {"completed", "partial", "failed"},
              execStatus \in {"completed", "failed"} :
                /\ execStatus = "failed" => result = "failed"
                /\ Settle(s, fence, postings, result, execStatus)
      BY <2>8 DEF SettleStep
    <3>1. /\ exec'[s].status = execStatus
          /\ \A t \in Searches \ {s} : exec'[t] = exec[t]
      BY DEF Settle, TypeOK, Execution
    <3>2. /\ status'[s] = result
          /\ \A t \in Searches \ {s} : status'[t] = status[t]
      BY DEF Settle, TypeOK
    <3>. QED
      BY <3>1, <3>2 DEF Settle, RunCommandCoupling
  <2>. QED
    BY <1>3, <2>1, <2>2, <2>3, <2>4, <2>5, <2>6, <2>7, <2>8 DEF StoreStep
<1>. QED
  BY <1>1, <1>2, <1>3, StepCases

\* The run and the execution of its command agree in every reachable state,
\* whatever the consumers do.
THEOREM StoreCoupling == StoreSpec => []RunCommandCoupling
<1>1. TypeOK /\ RunCommandCoupling /\ [StoreNext]_storeVars
        => (TypeOK /\ RunCommandCoupling)'
  BY TypeStep, CouplingStep
<1>. QED
  BY TypeInit, CouplingInit, <1>1, PTL DEF StoreSpec

-----------------------------------------------------------------------------
(* The event log *)

LEMMA LogInit == StoreInit => LogTellsStatus
BY DEF StoreInit, LogTellsStatus, LogsOf

LEMMA LogStep ==
  ASSUME TypeOK, LogTellsStatus, [StoreNext]_storeVars
  PROVE  LogTellsStatus'
<1>1. ASSUME UNCHANGED <<status, events>>
      PROVE  LogTellsStatus'
  BY <1>1 DEF LogTellsStatus
\* The log of s grows by one event, from a log of its old status to one of its
\* new status; the other runs keep theirs.
<1>2. ASSUME NEW s \in Searches, NEW st, NEW event,
             status' = [status EXCEPT ![s] = st],
             events' = [events EXCEPT ![s] = Append(@, event)],
             Append(events[s], event) \in LogsOf(st)
      PROVE  LogTellsStatus'
  BY <1>2 DEF TypeOK, LogTellsStatus
<1>3. ASSUME NEW s \in Searches, NEW st \in Settled, status[s] \in Active
      PROVE  Append(events[s], ClosingEvent(st)) \in LogsOf(st)
  <2>1. LogsOf(st) = {Append(log, ClosingEvent(st)) : log \in {QueuedLog, StartedLog}}
    BY <1>3 DEF LogsOf, Settled
  <2>2. events[s] \in {QueuedLog, StartedLog}
    BY <1>3 DEF LogTellsStatus, LogsOf, Active
  <2>. QED
    BY <2>1, <2>2
<1>4. ASSUME NEW s \in Searches, StoreStep(s)
      PROVE  LogTellsStatus'
  <2>1. ASSUME NEW req \in Request, NEW useProfileTitles, NEW hasTitles,
               CreateSearch(s, req, useProfileTitles, hasTitles)
        PROVE  LogTellsStatus'
    BY <2>1 DEF CreateSearch, TypeOK, LogTellsStatus, LogsOf, QueuedLog
  <2>2. CASE CancelSearch(s)
    <3>1. Append(events[s], ClosingEvent("cancelled")) \in LogsOf("cancelled")
      BY <2>2, <1>3 DEF CancelSearch, Settled
    <3>2. ClosingEvent("cancelled") = "SearchCancelled"
      BY DEF ClosingEvent
    <3>. QED
      BY <2>2, <3>1, <3>2, <1>2 DEF CancelSearch
  <2>3. ASSUME NEW fence \in 1..MaxFence,
               \/ Published(s)
               \/ Claim(s)
               \/ Renew(s, fence)
               \/ Release(s, fence)
        PROVE  LogTellsStatus'
    BY <2>3, <1>1 DEF Published, Claim, Renew, Release
  <2>4. ASSUME NEW fence \in 1..MaxFence, StartSearch(s, fence)
        PROVE  LogTellsStatus'
    <3>1. events[s] = QueuedLog
      BY <2>4 DEF StartSearch, NotStarted, LogTellsStatus, LogsOf
    <3>2. Append(events[s], "SearchStarted") \in LogsOf("running")
      BY <3>1 DEF LogsOf, StartedLog
    <3>. QED
      BY <2>4, <3>2, <1>2 DEF StartSearch
  <2>5. ASSUME NEW fence \in 1..MaxFence, SettleStep(s, fence)
        PROVE  LogTellsStatus'
    <3>. PICK postings \in SUBSET Fingerprints,
              result \in {"completed", "partial", "failed"},
              execStatus \in {"completed", "failed"} :
                Settle(s, fence, postings, result, execStatus)
      BY <2>5 DEF SettleStep
    <3>1. Append(events[s], ClosingEvent(result)) \in LogsOf(result)
      BY <1>3 DEF Settle, Settled
    <3>2. ClosingEvent(result) = OutcomeEvent(result)
      BY DEF ClosingEvent
    <3>. QED
      BY <3>1, <3>2, <1>2 DEF Settle
  <2>. QED
    BY <1>4, <2>1, <2>2, <2>3, <2>4, <2>5, FenceAssumption DEF StoreStep
<1>. QED
  BY <1>1, <1>4, StepCases DEF StoreTick, storeVars

\* A client that follows the events of a run sees it begin once and end once,
\* and ends with the status of the row.
THEOREM StoreLog == StoreSpec => []LogTellsStatus
<1>1. TypeOK /\ LogTellsStatus /\ [StoreNext]_storeVars => (TypeOK /\ LogTellsStatus)'
  BY TypeStep, LogStep
<1>. QED
  BY TypeInit, LogInit, <1>1, PTL DEF StoreSpec

-----------------------------------------------------------------------------
(* Postings and sightings *)

LEMMA JobsInit == StoreInit => JobsOfSuccess
BY DEF StoreInit, JobsOfSuccess

LEMMA JobsStep ==
  ASSUME TypeOK, JobsOfSuccess, [StoreNext]_storeVars
  PROVE  JobsOfSuccess'
<1>1. ASSUME UNCHANGED <<status, jobs>>
      PROVE  JobsOfSuccess'
  BY <1>1 DEF JobsOfSuccess
<1>2. ASSUME NEW s \in Searches, StoreStep(s)
      PROVE  JobsOfSuccess'
  <2>1. ASSUME NEW req \in Request, NEW useProfileTitles, NEW hasTitles,
               CreateSearch(s, req, useProfileTitles, hasTitles)
        PROVE  JobsOfSuccess'
    BY <2>1 DEF CreateSearch, TypeOK, JobsOfSuccess
  <2>2. CASE CancelSearch(s)
    BY <2>2 DEF CancelSearch, Active, TypeOK, JobsOfSuccess
  <2>3. ASSUME NEW fence \in 1..MaxFence,
               Published(s) \/ Claim(s) \/ Renew(s, fence) \/ Release(s, fence)
        PROVE  JobsOfSuccess'
    BY <2>3, <1>1 DEF Published, Claim, Renew, Release
  <2>4. ASSUME NEW fence \in 1..MaxFence, StartSearch(s, fence)
        PROVE  JobsOfSuccess'
    BY <2>4 DEF StartSearch, NotStarted, TypeOK, JobsOfSuccess
  <2>5. ASSUME NEW fence \in 1..MaxFence, SettleStep(s, fence)
        PROVE  JobsOfSuccess'
    <3>. PICK postings \in SUBSET Fingerprints,
              result \in {"completed", "partial", "failed"},
              execStatus \in {"completed", "failed"} :
                /\ postings # {} => result \in {"completed", "partial"}
                /\ Settle(s, fence, postings, result, execStatus)
      BY <2>5 DEF SettleStep
    <3>1. jobs[s] = {}
      BY DEF Settle, Active, JobsOfSuccess
    <3>. QED
      BY <3>1 DEF Settle, TypeOK, JobsOfSuccess
  <2>. QED
    BY <1>2, <2>1, <2>2, <2>3, <2>4, <2>5, FenceAssumption DEF StoreStep
<1>. QED
  BY <1>1, <1>2, StepCases DEF StoreTick, storeVars

\* No posting is visible before its run has ended well, at least in part.
THEOREM StoreJobs == StoreSpec => []JobsOfSuccess
<1>1. TypeOK /\ JobsOfSuccess /\ [StoreNext]_storeVars => (TypeOK /\ JobsOfSuccess)'
  BY TypeStep, JobsStep
<1>. QED
  BY TypeInit, JobsInit, <1>1, PTL DEF StoreSpec

\* The runs of an owner that hold a posting.
Holding(o, f) == {s \in Searches : f \in jobs[s] /\ request[s].owner = o}

LEMMA SightingsInit == StoreInit => SightingsCountRuns
<1>. SUFFICES ASSUME StoreInit
              PROVE  SightingsCountRuns
  OBVIOUS
<1>1. \A o \in Owners, f \in Fingerprints : Holding(o, f) = {}
  BY DEF StoreInit, Holding
<1>. QED
  BY <1>1, FS_EmptySet DEF StoreInit, SightingsCountRuns, Holding

LEMMA SightingsStep ==
  ASSUME TypeOK, JobsOfSuccess, SightingsCountRuns, [StoreNext]_storeVars
  PROVE  SightingsCountRuns'
<1>1. ASSUME UNCHANGED sightings,
             \A o \in Owners, f \in Fingerprints : Holding(o, f)' = Holding(o, f)
      PROVE  SightingsCountRuns'
  BY <1>1 DEF SightingsCountRuns, Holding
<1>2. ASSUME UNCHANGED <<request, jobs, sightings>>
      PROVE  SightingsCountRuns'
  BY <1>2, <1>1 DEF Holding
<1>3. ASSUME NEW s \in Searches, StoreStep(s)
      PROVE  SightingsCountRuns'
  <2>1. ASSUME NEW req \in Request, NEW useProfileTitles, NEW hasTitles,
               CreateSearch(s, req, useProfileTitles, hasTitles)
        PROVE  SightingsCountRuns'
    <3>1. jobs[s] = {}
      BY <2>1 DEF CreateSearch, JobsOfSuccess
    <3>2. \A o \in Owners, f \in Fingerprints : Holding(o, f)' = Holding(o, f)
      BY <2>1, <3>1 DEF CreateSearch, TypeOK, Holding
    <3>. QED
      BY <2>1, <3>2, <1>1 DEF CreateSearch
  <2>2. ASSUME NEW fence \in 1..MaxFence,
               \/ CancelSearch(s)
               \/ Published(s)
               \/ Claim(s)
               \/ Renew(s, fence)
               \/ Release(s, fence)
               \/ StartSearch(s, fence)
        PROVE  SightingsCountRuns'
    BY <2>2, <1>2 DEF CancelSearch, Published, Claim, Renew, Release, StartSearch
  <2>3. ASSUME NEW fence \in 1..MaxFence, SettleStep(s, fence)
        PROVE  SightingsCountRuns'
    <3>. PICK postings \in SUBSET Fingerprints,
              result \in {"completed", "partial", "failed"},
              execStatus \in {"completed", "failed"} :
                Settle(s, fence, postings, result, execStatus)
      BY <2>3 DEF SettleStep
    <3>1. jobs[s] = {}
      BY DEF Settle, Active, JobsOfSuccess
    <3>2. ASSUME NEW o \in Owners, NEW f \in Fingerprints
          PROVE  sightings'[o][f] = Cardinality(Holding(o, f)')
      <4>1. /\ IsFiniteSet(Holding(o, f))
            /\ sightings[o][f] = Cardinality(Holding(o, f))
        BY SearchesAssumption, FS_Subset DEF SightingsCountRuns, Holding
      <4>2. CASE o = request[s].owner /\ f \in postings
        <5>1. /\ Holding(o, f)' = Holding(o, f) \union {s}
              /\ s \notin Holding(o, f)
          BY <3>1, <4>2 DEF Settle, TypeOK, Holding
        <5>2. sightings'[o][f] = sightings[o][f] + 1
          BY <4>2 DEF Settle, Sighted
        <5>. QED
          BY <4>1, <5>1, <5>2, FS_AddElement
      <4>3. CASE ~(o = request[s].owner /\ f \in postings)
        <5>1. Holding(o, f)' = Holding(o, f)
          BY <3>1, <4>3 DEF Settle, TypeOK, Holding
        <5>2. sightings'[o][f] = sightings[o][f]
          BY <4>3 DEF Settle, Sighted
        <5>. QED
          BY <4>1, <5>1, <5>2
      <4>. QED
        BY <4>2, <4>3
    <3>. QED
      BY <3>2 DEF SightingsCountRuns, Holding
  <2>. QED
    BY <1>3, <2>1, <2>2, <2>3, FenceAssumption DEF StoreStep
<1>. QED
  BY <1>2, <1>3, StepCases DEF StoreTick, storeVars

\* Collection has its effect exactly once per run, for any number of deliveries,
\* takeovers and retries: the sightings are the runs that hold the posting.
THEOREM StoreSightings == StoreSpec => []SightingsCountRuns
<1>. DEFINE Inv == TypeOK /\ JobsOfSuccess /\ SightingsCountRuns
<1>1. Inv /\ [StoreNext]_storeVars => Inv'
  BY TypeStep, JobsStep, SightingsStep
<1>2. StoreInit => Inv
  BY TypeInit, JobsInit, SightingsInit
<1>. QED
  BY <1>1, <1>2, PTL DEF StoreSpec

-----------------------------------------------------------------------------
(* Submissions *)

LEMMA KeyStep ==
  ASSUME TypeOK, OneRunPerKey, [StoreNext]_storeVars
  PROVE  OneRunPerKey'
<1>1. ASSUME UNCHANGED request,
             \A t \in Searches : status'[t] # "none" => status[t] # "none"
      PROVE  OneRunPerKey'
  BY <1>1 DEF OneRunPerKey
<1>2. UNCHANGED <<request, status>> => OneRunPerKey'
  BY <1>1
<1>3. ASSUME NEW s \in Searches, StoreStep(s)
      PROVE  OneRunPerKey'
  <2>1. ASSUME NEW req \in Request, NEW useProfileTitles, NEW hasTitles,
               CreateSearch(s, req, useProfileTitles, hasTitles)
        PROVE  OneRunPerKey'
    <3>1. /\ request'[s] = req
          /\ \A t \in Searches \ {s} : request'[t] = request[t] /\ status'[t] = status[t]
      BY <2>1 DEF CreateSearch, TypeOK
    <3>2. \A t \in Searches \ {s} :
            status[t] # "none" => request[t].owner # req.owner \/ request[t].key # req.key
      BY <2>1 DEF CreateSearch, KeyTaken
    <3>. QED
      BY <3>1, <3>2 DEF OneRunPerKey
  <2>2. CASE CancelSearch(s)
    BY <2>2, <1>1 DEF CancelSearch, Active, TypeOK
  <2>3. ASSUME NEW fence \in 1..MaxFence,
               Published(s) \/ Claim(s) \/ Renew(s, fence) \/ Release(s, fence)
        PROVE  OneRunPerKey'
    BY <2>3, <1>2 DEF Published, Claim, Renew, Release
  <2>4. ASSUME NEW fence \in 1..MaxFence, StartSearch(s, fence)
        PROVE  OneRunPerKey'
    BY <2>4, <1>1 DEF StartSearch, NotStarted, TypeOK
  <2>5. ASSUME NEW fence \in 1..MaxFence, SettleStep(s, fence)
        PROVE  OneRunPerKey'
    BY <2>5, <1>1 DEF SettleStep, Settle, Active, TypeOK
  <2>. QED
    BY <1>3, <2>1, <2>2, <2>3, <2>4, <2>5, FenceAssumption DEF StoreStep
<1>4. CASE StoreTick
  BY <1>4, <1>2 DEF StoreTick
<1>. QED
  BY <1>2, <1>3, <1>4, StepCases DEF storeVars

\* A repeated submission never makes a second run, whatever the runs that hold
\* the key have come to.
THEOREM StoreOneRunPerKey == StoreSpec => []OneRunPerKey
<1>1. StoreInit => OneRunPerKey
  BY DEF StoreInit, OneRunPerKey
<1>2. TypeOK /\ OneRunPerKey /\ [StoreNext]_storeVars => (TypeOK /\ OneRunPerKey)'
  BY TypeStep, KeyStep
<1>. QED
  BY TypeInit, <1>1, <1>2, PTL DEF StoreSpec

-----------------------------------------------------------------------------
(* The strengthened invariant, and what a step may never do *)

StoreInv ==
  /\ TypeOK
  /\ RunCommandCoupling
  /\ LogTellsStatus
  /\ JobsOfSuccess
  /\ SightingsCountRuns

LEMMA InvInit == StoreInit => StoreInv
BY TypeInit, CouplingInit, LogInit, JobsInit, SightingsInit DEF StoreInv

LEMMA InvStep == StoreInv /\ [StoreNext]_storeVars => StoreInv'
BY TypeStep, CouplingStep, LogStep, JobsStep, SightingsStep DEF StoreInv

\* Everything the run checks of the store at once: the inductive invariant.
THEOREM StoreInvariant == StoreSpec => []StoreInv
BY InvInit, InvStep, PTL DEF StoreSpec

LEMMA FinalStep ==
  ASSUME StoreInv, StoreNext, NEW t \in Searches, status[t] \in Settled
  PROVE  /\ status'[t] = status[t]
         /\ events'[t] = events[t]
         /\ jobs'[t] = jobs[t]
         /\ exec'[t].status = exec[t].status
         /\ exec'[t].fence = exec[t].fence
<1>. USE DEF StoreInv, TypeOK
<1>1. exec[t].status \in {"completed", "failed"}
  BY DEF RunCommandCoupling
<1>2. CASE StoreTick
  BY <1>2 DEF StoreTick, Lapsed, Execution
<1>3. ASSUME NEW s \in Searches, StoreStep(s)
      PROVE  /\ status'[t] = status[t]
             /\ events'[t] = events[t]
             /\ jobs'[t] = jobs[t]
             /\ exec'[t].status = exec[t].status
             /\ exec'[t].fence = exec[t].fence
  <2>1. ASSUME NEW req \in Request, NEW useProfileTitles, NEW hasTitles,
               CreateSearch(s, req, useProfileTitles, hasTitles)
        PROVE  t # s /\ UNCHANGED <<exec, jobs>>
    BY <2>1 DEF CreateSearch, Settled
  <2>2. CASE CancelSearch(s)
    BY <2>2 DEF CancelSearch, Active, Settled
  <2>3. ASSUME NEW fence \in 1..MaxFence, Claim(s) \/ Renew(s, fence) \/ Release(s, fence)
        PROVE  t # s /\ UNCHANGED <<status, events, jobs>>
    BY <1>1, <2>3 DEF Claim, Claimable, Renew, Release, Owned
  <2>4. ASSUME NEW fence \in 1..MaxFence, StartSearch(s, fence)
        PROVE  t # s /\ UNCHANGED <<exec, jobs>>
    BY <2>4 DEF StartSearch, NotStarted, Settled
  <2>5. ASSUME NEW fence \in 1..MaxFence, SettleStep(s, fence)
        PROVE  t # s
    BY <1>1, <2>5 DEF SettleStep, Settle, Owned
  <2>6. CASE \E req \in Request, useProfileTitles, hasTitles \in BOOLEAN :
               CreateSearch(s, req, useProfileTitles, hasTitles)
    BY <2>1, <2>6 DEF CreateSearch
  <2>7. CASE Published(s)
    BY <2>7 DEF Published
  <2>8. ASSUME NEW fence \in 1..MaxFence,
               \/ Claim(s)
               \/ Renew(s, fence)
               \/ Release(s, fence)
        PROVE  exec'[t] = exec[t] /\ UNCHANGED <<status, events, jobs>>
    BY <2>3, <2>8 DEF Claim, Renew, Release
  <2>9. ASSUME NEW fence \in 1..MaxFence, StartSearch(s, fence)
        PROVE  status'[t] = status[t] /\ events'[t] = events[t] /\ UNCHANGED <<exec, jobs>>
    BY <2>4, <2>9 DEF StartSearch
  <2>10. ASSUME NEW fence \in 1..MaxFence, SettleStep(s, fence)
         PROVE  /\ status'[t] = status[t]
                /\ events'[t] = events[t]
                /\ jobs'[t] = jobs[t]
                /\ exec'[t] = exec[t]
    BY <2>5, <2>10 DEF SettleStep, Settle
  <2>. QED
    BY <1>3, <2>2, <2>6, <2>7, <2>8, <2>9, <2>10, FenceAssumption DEF StoreStep
<1>. QED
  BY <1>2, <1>3, StepCases

\* A settled run is final: nothing a late or repeated call does changes it.
THEOREM StoreSettledIsFinal == StoreSpec => SettledIsFinal
<1>1. StoreInv /\ [StoreNext]_storeVars =>
        [\A s \in Searches :
           status[s] \in Settled =>
             /\ status'[s] = status[s]
             /\ events'[s] = events[s]
             /\ jobs'[s] = jobs[s]
             /\ exec'[s].status = exec[s].status
             /\ exec'[s].fence = exec[s].fence]_storeVars
  BY FinalStep
<1>. QED
  BY <1>1, StoreInvariant, PTL DEF StoreSpec, SettledIsFinal

LEMMA ExclusiveStep ==
  ASSUME StoreInv, StoreNext, NEW t \in Searches,
         exec[t].status = "running", exec[t].lease > 0, exec'[t].fence # exec[t].fence
  PROVE  status'[t] = "cancelled"
<1>. USE DEF StoreInv, TypeOK
<1>1. CASE StoreTick
  BY <1>1 DEF StoreTick, Lapsed, Execution
<1>2. ASSUME NEW s \in Searches, StoreStep(s)
      PROVE  status'[t] = "cancelled"
  <2>1. CASE CancelSearch(s)
    BY <2>1 DEF CancelSearch
  <2>2. ASSUME Claim(s)
        PROVE  t # s
    BY <2>2 DEF Claim, Claimable, Execution
  <2>3. ASSUME NEW fence \in 1..MaxFence, Renew(s, fence) \/ Release(s, fence)
        PROVE  exec'[t].fence = exec[t].fence
    <3>1. CASE Renew(s, fence)
      BY <3>1 DEF Renew, Execution
    <3>2. CASE Release(s, fence)
      BY <3>2 DEF Release, Execution
    <3>. QED
      BY <2>3, <3>1, <3>2
  <2>4. ASSUME NEW fence \in 1..MaxFence, SettleStep(s, fence)
        PROVE  exec'[t].fence = exec[t].fence
    BY <2>4 DEF SettleStep, Settle, Execution
  <2>5. CASE Claim(s)
    BY <2>2, <2>5 DEF Claim
  <2>6. ASSUME NEW fence \in 1..MaxFence,
               \/ \E req \in Request, useProfileTitles, hasTitles \in BOOLEAN :
                    CreateSearch(s, req, useProfileTitles, hasTitles)
               \/ Published(s)
               \/ StartSearch(s, fence)
        PROVE  UNCHANGED exec
    BY <2>6 DEF CreateSearch, Published, StartSearch
  <2>. QED
    BY <1>2, <2>1, <2>3, <2>4, <2>5, <2>6, FenceAssumption DEF StoreStep
<1>. QED
  BY <1>1, <1>2, StepCases

\* Nobody but the owner, by cancelling, takes a command from a worker whose
\* lease is live.
THEOREM StoreLeaseIsExclusive == StoreSpec => LeaseIsExclusive
<1>1. StoreInv /\ [StoreNext]_storeVars =>
        [\A s \in Searches :
           /\ exec[s].status = "running"
           /\ exec[s].lease > 0
           /\ exec'[s].fence # exec[s].fence
           => status'[s] = "cancelled"]_storeVars
  BY ExclusiveStep
<1>. QED
  BY <1>1, StoreInvariant, PTL DEF StoreSpec, LeaseIsExclusive

-----------------------------------------------------------------------------
(* The store implements RunLifecycle *)

LEMMA LifecycleInit == StoreInit => Lifecycle!Init
BY DEF StoreInit, Lifecycle!Init

\* The log of an active run is open, and its postings are still to come.
LEMMA ActiveIsOpen ==
  ASSUME StoreInv, NEW s \in Searches, status[s] \in Active
  PROVE  Lifecycle!Open(s) /\ jobs[s] = {}
<1>1. events[s] \in {QueuedLog, StartedLog}
  BY DEF StoreInv, LogTellsStatus, LogsOf, Active
<1>2. QueuedLog # <<>> /\ Lifecycle!Last(QueuedLog) = "SearchQueued"
  BY DEF QueuedLog, Lifecycle!Last
<1>3. StartedLog # <<>> /\ Lifecycle!Last(StartedLog) = "SearchStarted"
  BY DEF StartedLog, QueuedLog, Lifecycle!Last
<1>4. jobs[s] = {}
  BY DEF StoreInv, JobsOfSuccess, Active
<1>. QED
  BY <1>1, <1>2, <1>3, <1>4 DEF Lifecycle!Open, Lifecycle!Outcomes

LEMMA LifecycleStep ==
  ASSUME StoreInv, [StoreNext]_storeVars
  PROVE  [Lifecycle!Next]_Lifecycle!vars
<1>1. ASSUME UNCHANGED <<events, jobs>>
      PROVE  UNCHANGED Lifecycle!vars
  BY <1>1 DEF Lifecycle!vars
<1>2. ASSUME NEW s \in Searches, StoreStep(s)
      PROVE  [Lifecycle!Next]_Lifecycle!vars
  <2>1. ASSUME NEW req \in Request, NEW useProfileTitles, NEW hasTitles,
               CreateSearch(s, req, useProfileTitles, hasTitles)
        PROVE  Lifecycle!Submit(s)
    <3>1. events[s] = <<>>
      BY <2>1 DEF CreateSearch, StoreInv, LogTellsStatus, LogsOf
    <3>. QED
      BY <2>1, <3>1 DEF CreateSearch, Lifecycle!Submit
  <2>2. CASE CancelSearch(s)
    <3>1. Lifecycle!Open(s) /\ jobs[s] = {}
      BY <2>2, ActiveIsOpen DEF CancelSearch
    <3>2. jobs' = [jobs EXCEPT ![s] = {}]
      BY <2>2, <3>1 DEF CancelSearch, StoreInv, TypeOK
    <3>3. Lifecycle!Close(s, "SearchCancelled", {})
      BY <2>2, <3>1, <3>2 DEF CancelSearch, Lifecycle!Close
    <3>. QED
      BY <3>3 DEF Lifecycle!Next, Lifecycle!Outcomes
  <2>3. ASSUME NEW fence \in 1..MaxFence,
               Published(s) \/ Claim(s) \/ Renew(s, fence) \/ Release(s, fence)
        PROVE  UNCHANGED <<events, jobs>>
    BY <2>3 DEF Published, Claim, Renew, Release
  <2>4. ASSUME NEW fence \in 1..MaxFence, StartSearch(s, fence)
        PROVE  Lifecycle!Start(s)
    <3>1. events[s] = <<"SearchQueued">>
      BY <2>4 DEF StartSearch, NotStarted, StoreInv, LogTellsStatus, LogsOf, QueuedLog
    <3>. QED
      BY <2>4, <3>1 DEF StartSearch, Lifecycle!Start
  <2>5. ASSUME NEW fence \in 1..MaxFence, SettleStep(s, fence)
        PROVE  Lifecycle!Next
    <3>. PICK postings \in SUBSET Fingerprints,
              result \in {"completed", "partial", "failed"},
              execStatus \in {"completed", "failed"} :
                /\ postings # {} => result \in {"completed", "partial"}
                /\ Settle(s, fence, postings, result, execStatus)
      BY <2>5 DEF SettleStep
    <3>1. Lifecycle!Open(s) /\ jobs[s] = {}
      BY ActiveIsOpen DEF Settle
    <3>2. jobs' = [jobs EXCEPT ![s] = postings]
      BY <3>1 DEF Settle, StoreInv, TypeOK
    <3>3. /\ OutcomeEvent(result) \in Lifecycle!Outcomes
          /\ postings # {} => OutcomeEvent(result) \in {"SearchCompleted", "SearchPartial"}
      BY DEF OutcomeEvent, Lifecycle!Outcomes
    <3>4. Lifecycle!Close(s, OutcomeEvent(result), postings)
      BY <3>1, <3>2, <3>3 DEF Settle, Lifecycle!Close
    <3>. QED
      BY <3>3, <3>4 DEF Lifecycle!Next
  <2>. QED
    <3>1. ASSUME NEW fence \in 1..MaxFence,
                 Published(s) \/ Claim(s) \/ Renew(s, fence) \/ Release(s, fence)
          PROVE  UNCHANGED Lifecycle!vars
      BY <2>3, <3>1, <1>1
    <3>2. CASE \E req \in Request, useProfileTitles, hasTitles \in BOOLEAN :
                 CreateSearch(s, req, useProfileTitles, hasTitles)
      BY <2>1, <3>2 DEF Lifecycle!Next
    <3>3. ASSUME NEW fence \in 1..MaxFence, StartSearch(s, fence)
          PROVE  Lifecycle!Next
      BY <2>4, <3>3 DEF Lifecycle!Next
    <3>. QED
      BY <1>2, <2>2, <2>5, <3>1, <3>2, <3>3, FenceAssumption DEF StoreStep
<1>. QED
  BY <1>1, <1>2, StepCases DEF StoreTick, storeVars

\* Whatever its callers do, the store gives every search the life RunLifecycle
\* promises: submitted once, started at most once, closed once, together with
\* its postings.
THEOREM StoreImplementsLifecycle == StoreSpec => ImplementsLifecycle
<1>1. StoreInv /\ [StoreNext]_storeVars => [Lifecycle!Next]_Lifecycle!vars
  BY LifecycleStep
<1>. QED
  BY LifecycleInit, <1>1, StoreInvariant, PTL
     DEF StoreSpec, ImplementsLifecycle, Lifecycle!Spec
=============================================================================
